---- MODULE Spec2Model ----
(***************************************************************************)
(* State-machine model of three UQpy classes:                              *)
(*   LatinHypercubeSampling (sampling/LatinHypercubeSampling.py),          *)
(*   MLE                    (inference/MLE.py),                            *)
(*   JointCopula            (distributions/collection/JointCopula.py).     *)
(* Each class has its own specification (SpecLHS, SpecMLE, SpecJC); the    *)
(* variables of the other classes stay untouched under it.                 *)
(***************************************************************************)
EXTENDS Integers, Sequences, FiniteSets, TLC

(***************************************************************************)
(* Bounds of the model.                                                    *)
(***************************************************************************)
MaxN == 3          \* largest samples_number passed to construct / run
MaxDim == 2        \* largest number of marginals of a list / aggregate
NumSeeds == 2      \* number of random states the criterion may be in
MaxCalls == 3      \* largest number of run invocations on one engine
MaxParam == 2      \* MLE: parameter values are 0..MaxParam
MaxOpt == 2        \* MLE: largest n_optimizations / number of starting points
MaxMLERuns == 2    \* MLE: largest number of run invocations on one estimator
MaxMarg == 2       \* JointCopula: largest number of marginals

VARIABLES
    dist_object,     \* LHS: self.dist_object  [kind, dims, icdf]
    criterion,       \* LHS: self.criterion    (name of the strategy)
    samples_number,  \* LHS: self.samples_number
    samples,         \* LHS: self.samples      (sequence of rows; <<>> is None)
    samplesU01,      \* LHS: self.samplesU01   (sequence of rows)
    lhs_pc,          \* LHS: "init" | "live" (constructor returned) | "dead" (constructor raised)
    lhs_err,         \* LHS: exception of the last construct / run call, "none" if it completed
    run_calls        \* LHS: number of times run was entered

VARIABLES
    inference_model,     \* MLE: self.inference_model [fit, n_parameters]
    n_optimizations,     \* MLE: self.n_optimizations (None or <<k>>)
    initial_parameters,  \* MLE: self.initial_parameters (None or a sequence of rows)
    data,                \* MLE: self.data (None or a sequence of observations)
    mle,                 \* MLE: self.mle (None or the parameter vector)
    max_log_like,        \* MLE: self.max_log_like (None or <<value>>)
    mle_pc,              \* MLE: "init" | "constructed" | "ran" | "dead"
    mle_err,             \* MLE: exception of the last constructor / run call
    mle_runs,            \* MLE: number of times run was entered
    opt_results,         \* MLE: vectors returned by the optimizer / fit calls of the last run
    returned             \* MLE: vectors returned by any optimizer / fit call so far

VARIABLES
    marginals,           \* JointCopula: self.marginals (sequence of marginal objects)
    copula,              \* JointCopula: self.copula
    ordered_parameters,  \* JointCopula: self.ordered_parameters (sequence of keys)
    methods,             \* JointCopula: which of cdf / pdf / log_pdf were bound to the object
    jc_pc,               \* JointCopula: "init" | "live" | "dead"
    jc_err               \* JointCopula: exception of the last constructor / update call

lhs_vars == <<dist_object, criterion, samples_number, samples, samplesU01,
              lhs_pc, lhs_err, run_calls>>

mle_vars == <<inference_model, n_optimizations, initial_parameters, data, mle,
              max_log_like, mle_pc, mle_err, mle_runs, opt_results, returned>>

jc_vars == <<marginals, copula, ordered_parameters, methods, jc_pc, jc_err>>

vars == <<lhs_vars, mle_vars, jc_vars>>

(***************************************************************************)
(* Arithmetic helpers.  Values of the unit interval are kept as integer    *)
(* numerators over the common denominator Den, so that k/n is exact for    *)
(* every n in 1..MaxN and every bin has an interior midpoint.              *)
(***************************************************************************)
RECURSIVE Gcd(_, _)
Gcd(a, b) == IF b = 0 THEN a ELSE Gcd(b, a % b)

RECURSIVE LcmUpTo(_)
LcmUpTo(n) == IF n <= 1 THEN 1 ELSE (LcmUpTo(n - 1) * n) \div Gcd(LcmUpTo(n - 1), n)

Den == 2 * LcmUpTo(MaxN)

None == <<>>

Rows(m) == Len(m)

Cols(m) == IF Len(m) = 0 THEN 0 ELSE Len(m[1])

Range(f) == { f[i] : i \in DOMAIN f }

Zeros(n, d) == [i \in 1..n |-> [j \in 1..d |-> 0]]

(***************************************************************************)
(* Marginal distributions (collaborators of the engine).  The marginal of  *)
(* dimension j is Uniform(loc = j, scale = j + 1), so its inverse CDF is   *)
(* loc + scale * u; in units of 1/Den that is j * Den + (j + 1) * u.       *)
(* It is never 0 and differs from column to column.                        *)
(***************************************************************************)
Icdf(j, u) == j * Den + (j + 1) * u

\* hasattr(marginal_j, "icdf")
HasIcdf(dist, j) == j \in dist.icdf

\* The kinds of `distributions` a caller can pass:
\*   "list"    a list of Distribution objects
\*   "single"  one DistributionContinuous1D
\*   "joint"   a JointIndependent aggregate
\*   "other"   any other Distribution (a JointCopula, a discrete 1-D, ...)
\*   "invalid" not a Distribution at all (refused by the type-checking decorator)
DistKinds == {"list", "single", "joint", "other", "invalid"}

Distributions ==
    UNION { { [kind |-> k, dims |-> d, icdf |-> h] :
                k \in {"list", "joint"}, h \in SUBSET (1..d) } : d \in 1..MaxDim }
    \cup { [kind |-> "single", dims |-> 1, icdf |-> h] : h \in SUBSET {1} }
    \cup { [kind |-> k, dims |-> 0, icdf |-> {}] : k \in {"other", "invalid"} }

(***************************************************************************)
(* Criterion strategies.  create_bins reads the grid size from the shape   *)
(* of the matrix it is handed; generate_samples returns one value per      *)
(* stratum and axis.  The random state of the criterion is the seed.       *)
(***************************************************************************)
Criteria == {"Random", "Centered", "MaxiMin"}

Seeds == 0..(NumSeeds - 1)

\* create_bins(samples): the number of strata is samples.shape[0];
\* a None matrix has no shape and the call raises.
CreateBinsRaises(mat) == mat = None

BinWidth(n) == Den \div n

\* Row i (1-based) of axis j is assigned stratum Stratum(..) in 0..n-1:
\* a seed-dependent permutation of the strata, different from axis to axis.
Stratum(seed, i, j, n) ==
    IF seed % 2 = 0
    THEN ((i - 1) + seed + (j - 1) * (seed + 1)) % n
    ELSE ((n - i) + seed + (j - 1) * (seed + 1)) % n

\* Offset of the sample inside its bin: the midpoint for Centered, a
\* pseudo-random point of the bin (its lower edge or its midpoint) otherwise.
Offset(crit, seed, i, j, n) ==
    IF crit = "Centered"
    THEN BinWidth(n) \div 2
    ELSE ((seed + i + j) % 2) * (BinWidth(n) \div 2)

\* MaxiMin needs two points to have a pairwise distance.
GenerateRaises(crit, mat) == crit = "MaxiMin" /\ Rows(mat) < 2

\* generate_samples(): the (n, d) unit-cube design for the grid of create_bins.
GenerateSamples(crit, seed, mat) ==
    [i \in 1..Rows(mat) |->
        [j \in 1..Cols(mat) |->
            Stratum(seed, i, j, Rows(mat)) * BinWidth(Rows(mat))
                + Offset(crit, seed, i, j, Rows(mat))]]

(***************************************************************************)
(* LatinHypercubeSampling.__init__ : allocation of the two matrices.       *)
(***************************************************************************)
\* self.samples after the isinstance chain; it stays None for a
\* Distribution that is neither a list, a continuous 1-D nor a JointIndependent.
AllocSamples(dist, n) ==
    IF dist.kind = "list" THEN Zeros(n, dist.dims)
    ELSE IF dist.kind = "single" THEN Zeros(n, 1)
    ELSE IF dist.kind = "joint" THEN Zeros(n, dist.dims)
    ELSE None

\* np.zeros_like(self.samples); of None it is a 0-d array, which has no rows.
ZerosLike(mat) == Zeros(Rows(mat), Cols(mat))

(***************************************************************************)
(* LatinHypercubeSampling.run : the inverse-CDF transform.                 *)
(***************************************************************************)
\* Mutant of ListCols: the hasattr test is dropped.
ListColsNoHasattr(dist) == 1..dist.dims

\* list branch: the columns j with hasattr(self.dist_object[j], "icdf")
ListCols(dist) == { j \in 1..dist.dims : HasIcdf(dist, j) }

\* JointIndependent branch: every column, if all the marginals have icdf
JointCols(dist) ==
    IF \A j \in 1..dist.dims : HasIcdf(dist, j) THEN 1..dist.dims ELSE {}

\* DistributionContinuous1D branch
SingleCols(dist) == IF HasIcdf(dist, 1) THEN {1} ELSE {}

\* The columns on which run calls an icdf, in increasing order.
InvokedCols(dist) ==
    IF dist.kind = "list" THEN ListCols(dist)
    ELSE IF dist.kind = "joint" THEN JointCols(dist)
    ELSE IF dist.kind = "single" THEN SingleCols(dist)
    ELSE {}

\* Mutant of ColumnValue: every column is transformed from column 1 of u_lhs.
ColumnValueFirstColumn(u, i, j) == Icdf(j, u[i][1])

\* self.samples[:, j] = marginal_j.icdf(u_lhs[:, j]), entry of row i
ColumnValue(u, i, j) == Icdf(j, u[i][j])

\* The loop over the columns writes self.samples in place; when the icdf of
\* column failCol raises (failCol = 0: none does) the loop stops there, the
\* columns before it already hold the new values.
TransformColumns(dist, old, u, failCol) ==
    [i \in 1..Rows(old) |->
        [j \in 1..Cols(old) |->
            IF j \in InvokedCols(dist) /\ (failCol = 0 \/ j < failCol)
            THEN ColumnValue(u, i, j)
            ELSE old[i][j]]]

\* self.samples = self.dist_object.icdf(u_lhs): the matrix is rebound as a whole.
TransformSingle(dist, old, u, failCol) ==
    IF 1 \in InvokedCols(dist) /\ failCol = 0
    THEN [i \in 1..Rows(u) |-> [j \in 1..Cols(u) |-> Icdf(1, u[i][j])]]
    ELSE old

Transform(dist, old, u, failCol) ==
    IF dist.kind = "single"
    THEN TransformSingle(dist, old, u, failCol)
    ELSE TransformColumns(dist, old, u, failCol)

\* The body of run on an engine whose fields are the record self; the result
\* is the record of the fields run assigns and the exception it ends with.
RunBody(self, m, seed, failCol) ==
    IF CreateBinsRaises(self.samples)
    THEN [samples_number |-> m, samples |-> self.samples,
          samplesU01 |-> self.samplesU01, err |-> "AttributeError"]
    ELSE IF GenerateRaises(self.criterion, self.samples)
    THEN [samples_number |-> m, samples |-> self.samples,
          samplesU01 |-> self.samplesU01, err |-> "InvalidDesignError"]
    ELSE [samples_number |-> m,
          samples |-> Transform(self.dist_object, self.samples,
                                GenerateSamples(self.criterion, seed, self.samples),
                                failCol),
          samplesU01 |-> GenerateSamples(self.criterion, seed, self.samples),
          err |-> IF failCol = 0 THEN "none" ELSE "IcdfError"]

\* The columns whose icdf may be made to raise in a call (0: none raises).
FailChoices(dist) == {0} \cup InvokedCols(dist)

(***************************************************************************)
(* The operations of the engine.                                           *)
(***************************************************************************)
\* The engine as __init__ leaves it right before its call of run.
Allocated(dist, n, crit) ==
    [dist_object |-> dist, criterion |-> crit, samples_number |-> n,
     samples |-> AllocSamples(dist, n),
     samplesU01 |-> ZerosLike(AllocSamples(dist, n))]

\* LatinHypercubeSampling(distributions, samples_number, criterion)
Construct(dist, n, crit, seed, failCol) ==
    /\ lhs_pc = "init"
    /\ IF dist.kind = "invalid"
       THEN /\ lhs_pc' = "dead"
            /\ lhs_err' = "TypeCheckError"
            /\ UNCHANGED <<dist_object, criterion, samples_number, samples,
                           samplesU01, run_calls>>
       ELSE \E r \in { RunBody(Allocated(dist, n, crit), n, seed, failCol) } :
               /\ dist_object' = dist
               /\ criterion' = crit
               /\ samples_number' = r.samples_number
               /\ samples' = r.samples
               /\ samplesU01' = r.samplesU01
               /\ lhs_err' = r.err
               /\ lhs_pc' = IF r.err = "none" THEN "live" ELSE "dead"
               /\ run_calls' = run_calls + 1
    /\ UNCHANGED <<mle_vars, jc_vars>>

\* engine.run(samples_number)
Run(m, seed, failCol) ==
    /\ lhs_pc = "live"
    /\ run_calls < MaxCalls
    /\ \E r \in { RunBody([dist_object |-> dist_object, criterion |-> criterion,
                            samples_number |-> samples_number, samples |-> samples,
                            samplesU01 |-> samplesU01], m, seed, failCol) } :
          /\ samples_number' = r.samples_number
          /\ samples' = r.samples
          /\ samplesU01' = r.samplesU01
          /\ lhs_err' = r.err
    /\ run_calls' = run_calls + 1
    /\ UNCHANGED <<dist_object, criterion, lhs_pc>>
    /\ UNCHANGED <<mle_vars, jc_vars>>

NextLHS ==
    \/ \E dist \in Distributions, n \in 1..MaxN, crit \in Criteria, seed \in Seeds :
         \E failCol \in FailChoices(dist) : Construct(dist, n, crit, seed, failCol)
    \/ \E m \in 1..MaxN, seed \in Seeds :
         \E failCol \in FailChoices(dist_object) : Run(m, seed, failCol)

(***************************************************************************)
(* MLE.  The inference model has n_parameters = 1; a dataset is a sequence *)
(* of observations x and the log-likelihood of parameter vector <<p>> is   *)
(* that of a unit-variance normal up to a constant: - sum (x - p)^2.       *)
(* An optional value is None (<<>>) or the one-element tuple <<v>>.        *)
(***************************************************************************)
Some(v) == <<v>>

Params == 0..MaxParam

Datasets == { <<0>>, <<MaxParam>> }

RECURSIVE SumSq(_, _)
SumSq(xs, p) == IF xs = <<>> THEN 0 ELSE (Head(xs) - p) * (Head(xs) - p) + SumSq(Tail(xs), p)

\* inference_model.evaluate_log_likelihood(parameters = vec, data = d)[0]
LogLikelihood(vec, d) == 0 - SumSq(d, vec[1])

InferenceModels == { [fit |-> f, n_parameters |-> 1] : f \in BOOLEAN }

OptCounts == {None} \cup { Some(k) : k \in 0..MaxOpt }

\* Starting points: None, or 1..MaxOpt rows of the right width, or one row
\* that is one column too wide.
InitialParameters ==
    {None}
    \cup UNION { [1..k -> {<<0>>}] : k \in 1..MaxOpt }
    \cup { << <<0, 0>> >> }

\* "Save result": one pass of the loop body that compares a candidate with
\* the retained estimate.  est is the pair [mle, max_log_like].
SaveResult(est, mle_tmp, max_log_like_tmp) ==
    IF est.mle = None \/ max_log_like_tmp > est.max_log_like[1]
    THEN [mle |-> mle_tmp, max_log_like |-> Some(max_log_like_tmp)]
    ELSE est

\* The loop over the first k optimizer / fit results xs[1..k], starting from est.
RECURSIVE Loop(_, _, _, _)
Loop(est, xs, k, d) ==
    IF k = 0 THEN est
    ELSE SaveResult(Loop(est, xs, k - 1, d), xs[k], LogLikelihood(xs[k], d))

\* How many optimizer / fit calls run makes, or the exception it raises
\* before the first one.
\* _run_distribution_fit: range(n_optimizations)
FitPlan(nopt) ==
    IF nopt = None THEN [err |-> "TypeError", calls |-> 0]
    ELSE [err |-> "none", calls |-> nopt[1]]

\* _run_optimization: the starting points
OptimizationPlan(model, init, nopt) ==
    IF init = None
    THEN IF nopt = None THEN [err |-> "TypeError", calls |-> 0]
         ELSE [err |-> "none", calls |-> nopt[1]]
    ELSE IF Len(init[1]) # model.n_parameters
         THEN [err |-> "ValueError", calls |-> 0]
         ELSE [err |-> "none", calls |-> Len(init)]

\* run: use_distribution_fit selects the branch
Plan(model, init, nopt) ==
    IF model.fit THEN FitPlan(nopt) ELSE OptimizationPlan(model, init, nopt)

\* The estimate run starts its loop from: the attributes as they are.
StartEstimate(cur) == cur

\* The body of run(d) on an estimator whose retained estimate is cur; xs are
\* the vectors the optimizer / fit calls return.
MLERunBody(model, init, nopt, cur, d, xs) ==
    LET plan == Plan(model, init, nopt)
        est == Loop(StartEstimate(cur), xs, plan.calls, d)
    IN [mle |-> est.mle, max_log_like |-> est.max_log_like, err |-> plan.err,
        results |-> SubSeq(xs, 1, plan.calls)]

\* MLE(inference_model, n_optimizations, initial_parameters, data)
MLEConstruct(model, nopt, init, d, xs) ==
    /\ mle_pc = "init"
    /\ inference_model' = model
    /\ n_optimizations' = nopt
    /\ initial_parameters' = init
    /\ data' = d
    /\ IF d # None
       THEN \E r \in { MLERunBody(model, init, nopt,
                                   [mle |-> None, max_log_like |-> None], d, xs) } :
               /\ mle' = r.mle
               /\ max_log_like' = r.max_log_like
               /\ mle_err' = r.err
               /\ mle_pc' = IF r.err = "none" THEN "constructed" ELSE "dead"
               /\ mle_runs' = 1
               /\ opt_results' = r.results
               /\ returned' = Range(r.results)
       ELSE /\ mle' = None
            /\ max_log_like' = None
            /\ mle_err' = "none"
            /\ mle_pc' = "constructed"
            /\ UNCHANGED <<mle_runs, opt_results, returned>>
    /\ UNCHANGED <<lhs_vars, jc_vars>>

\* estimator.run(data)
MLERun(d, xs) ==
    /\ mle_pc \in {"constructed", "ran"}
    /\ mle_runs < MaxMLERuns
    /\ data' = d
    /\ \E r \in { MLERunBody(inference_model, initial_parameters, n_optimizations,
                              [mle |-> mle, max_log_like |-> max_log_like], d, xs) } :
          /\ mle' = r.mle
          /\ max_log_like' = r.max_log_like
          /\ mle_err' = r.err
          /\ opt_results' = r.results
          /\ returned' = returned \cup Range(r.results)
    /\ mle_pc' = "ran"
    /\ mle_runs' = mle_runs + 1
    /\ UNCHANGED <<inference_model, n_optimizations, initial_parameters>>
    /\ UNCHANGED <<lhs_vars, jc_vars>>

Results == [1..MaxOpt -> { <<p>> : p \in Params }]

NextMLE ==
    \/ \E model \in InferenceModels, nopt \in OptCounts, init \in InitialParameters,
          d \in {None} \cup Datasets, xs \in Results :
         MLEConstruct(model, nopt, init, d, xs)
    \/ \E d \in Datasets, xs \in Results : MLERun(d, xs)

(***************************************************************************)
(* JointCopula.  Parameter names and keys are strings, modelled as         *)
(* sequences of characters so that concatenation and split("_") are        *)
(* computed as the code computes them.                                     *)
(***************************************************************************)
DigitChars == <<"0", "1", "2", "3", "4", "5", "6", "7", "8", "9">>

\* str(i) for 0 <= i < 100
Str(i) == IF i < 10 THEN <<DigitChars[i + 1]>>
          ELSE <<DigitChars[(i \div 10) + 1], DigitChars[(i % 10) + 1]>>

DigitValue(ch) == (CHOOSE k \in 1..10 : DigitChars[k] = ch) - 1

\* int(index)
RECURSIVE ParseInt(_)
ParseInt(str) == IF Len(str) = 1 THEN DigitValue(str[1])
            ELSE 10 * ParseInt(SubSeq(str, 1, Len(str) - 1)) + DigitValue(str[Len(str)])

\* str.split("_")
RECURSIVE Split(_)
Split(str) ==
    IF \A i \in 1..Len(str) : str[i] # "_"
    THEN <<str>>
    ELSE LET i == CHOOSE k \in 1..Len(str) :
                      str[k] = "_" /\ \A l \in 1..(k - 1) : str[l] # "_"
         IN <<SubSeq(str, 1, i - 1)>> \o Split(SubSeq(str, i + 1, Len(str)))

\* "_".join(parts)
RECURSIVE Join(_)
Join(parts) ==
    IF Len(parts) = 0 THEN <<>>
    ELSE IF Len(parts) = 1 THEN parts[1]
    ELSE parts[1] \o <<"_">> \o Join(Tail(parts))

\* Parameter names of the collaborators; two of them contain underscores and
\* end like an index / like the copula suffix.
NameA == <<"a">>
NameA1 == <<"a", "_", "1">>
NameAc == <<"a", "_", "c">>

\* A new marginal / copula object: capabilities, ordered_parameters and the
\* parameters dictionary (every parameter starts at 0).
Object(caps, ordered) ==
    [caps |-> caps, ordered_parameters |-> ordered,
     parameters |-> [k \in Range(ordered) |-> 0]]

\* The 1-D distributions a caller can pass as marginals.
MarginalObjects ==
    { Object({"cdf", "pdf", "log_pdf"}, <<NameA, NameA1>>),
      Object({"cdf", "log_pdf"}, <<NameA>>),
      Object({"cdf", "pdf"}, <<NameAc>>),
      Object({"pdf", "log_pdf"}, <<NameA>>) }

\* The copulas a caller can pass.
CopulaObjects ==
    { Object(c, <<NameA1>>) : c \in SUBSET {"evaluate_cdf", "evaluate_pdf"} }

Values == {0, 1}

\* key + "_" + str(i) for the marginal at (0-based) position i
MarginalKey(key, i) == key \o <<"_">> \o Str(i)

\* key + "_c"
CopulaKey(key) == key \o <<"_", "c">>

\* [f(x) for x in seq]
RECURSIVE Flatten(_)
Flatten(seqs) == IF seqs = <<>> THEN <<>> ELSE Head(seqs) \o Flatten(Tail(seqs))

\* __init__, lines 46-53: self.ordered_parameters
OrderedParameters(margs, cop) ==
    Flatten([i \in 1..Len(margs) |->
                [k \in 1..Len(margs[i].ordered_parameters) |->
                    MarginalKey(margs[i].ordered_parameters[k], i - 1)]])
    \o [k \in 1..Len(cop.ordered_parameters) |-> CopulaKey(cop.ordered_parameters[k])]

HasAttr(obj, name) == name \in obj.caps

\* Mutant of ExposesLogPdf: the marginals are asked for pdf instead of log_pdf.
ExposesLogPdfAsksPdf(margs, cop) ==
    (\A i \in 1..Len(margs) : HasAttr(margs[i], "pdf")) /\ HasAttr(cop, "evaluate_pdf")

ExposesCdf(margs, cop) == HasAttr(cop, "evaluate_cdf")

ExposesPdf(margs, cop) ==
    (\A i \in 1..Len(margs) : HasAttr(margs[i], "pdf")) /\ HasAttr(cop, "evaluate_pdf")

ExposesLogPdf(margs, cop) ==
    (\A i \in 1..Len(margs) : HasAttr(margs[i], "log_pdf")) /\ HasAttr(cop, "evaluate_pdf")

\* The methods __init__ binds to the object.
BoundMethods(margs, cop) ==
    (IF ExposesCdf(margs, cop) THEN {"cdf"} ELSE {})
    \cup (IF ExposesPdf(margs, cop) THEN {"pdf"} ELSE {})
    \cup (IF ExposesLogPdf(margs, cop) THEN {"log_pdf"} ELSE {})

\* The dictionary get_parameters builds: a later assignment to the same key
\* replaces an earlier one (marginals in order, then the copula).
GetParameters(margs, cop) ==
    LET mkeys(i) == { MarginalKey(k, i - 1) : k \in DOMAIN margs[i].parameters }
        ckeys == { CopulaKey(k) : k \in DOMAIN cop.parameters }
        keys == UNION { mkeys(i) : i \in 1..Len(margs) } \cup ckeys
        value(key) ==
            IF key \in ckeys
            THEN cop.parameters[CHOOSE k \in DOMAIN cop.parameters : CopulaKey(k) = key]
            ELSE LET i == CHOOSE j \in 1..Len(margs) :
                              /\ key \in mkeys(j)
                              /\ \A l \in (j + 1)..Len(margs) : key \notin mkeys(l)
                 IN margs[i].parameters[
                        CHOOSE k \in DOMAIN margs[i].parameters : MarginalKey(k, i - 1) = key]
    IN [key \in keys |-> value(key)]

\* Mutant of ParameterName: only the text before the first underscore is kept.
ParameterNameFirstPart(key_split) == key_split[1]

\* key = "_".join(key_split[:-1])
ParameterName(key_split) == Join(SubSeq(key_split, 1, Len(key_split) - 1))

\* index = key_split[-1]
ParameterIndex(key_split) == key_split[Len(key_split)]

\* dict[key] = value
SetItem(dict, key, value) ==
    [k \in DOMAIN dict \cup {key} |-> IF k = key THEN value ELSE dict[k]]

\* The assignment that ends one pass of the loop of update_parameters, on the
\* pair obj = [marginals, copula], given key_split = key_indexed.split("_").
AssignSplit(obj, key_split, value) ==
    IF ParameterIndex(key_split) = <<"c">>
    THEN [obj EXCEPT !.copula.parameters =
              SetItem(@, ParameterName(key_split), value)]
    ELSE [obj EXCEPT !.marginals[ParseInt(ParameterIndex(key_split)) + 1].parameters =
              SetItem(@, ParameterName(key_split), value)]

\* One pass of the loop of update_parameters for a recognised key.
Assign(obj, key_indexed, value) == AssignSplit(obj, Split(key_indexed), value)

\* The loop of update_parameters over kwargs (a sequence of <<key, value>>),
\* from position n on: it stops with ValueError at the first key that
\* get_parameters (evaluated once, before the loop) does not return.
RECURSIVE UpdateLoop(_, _, _, _)
UpdateLoop(obj, all_keys, kwargs, n) ==
    IF n > Len(kwargs) THEN [obj |-> obj, err |-> "none"]
    ELSE IF kwargs[n][1] \notin all_keys THEN [obj |-> obj, err |-> "ValueError"]
    ELSE UpdateLoop(Assign(obj, kwargs[n][1], kwargs[n][2]), all_keys, kwargs, n + 1)

\* JointCopula(marginals, copula); check_ok is the verdict of
\* Copula.check_marginals on the marginals.
JCConstruct(margs, cop, check_ok) ==
    /\ jc_pc = "init"
    /\ ordered_parameters' = OrderedParameters(margs, cop)
    /\ marginals' = margs
    /\ copula' = cop
    /\ IF (\E i \in 1..Len(margs) : ~HasAttr(margs[i], "cdf")) \/ ~check_ok
       THEN /\ jc_pc' = "dead"
            /\ jc_err' = "ValueError"
            /\ methods' = {}
       ELSE /\ jc_pc' = "live"
            /\ jc_err' = "none"
            /\ methods' = BoundMethods(margs, cop)
    /\ UNCHANGED <<lhs_vars, mle_vars>>

\* What update_parameters(**kwargs) does to the joint in its current state:
\* the marginals and copula it leaves, and the exception it ends with.
UpdateResult(kwargs) ==
    UpdateLoop([marginals |-> marginals, copula |-> copula],
               DOMAIN GetParameters(marginals, copula), kwargs, 1)

\* joint.update_parameters(**kwargs)
UpdateParameters(kwargs) ==
    /\ jc_pc = "live"
    /\ \E r \in { UpdateResult(kwargs) } :
          /\ marginals' = r.obj.marginals
          /\ copula' = r.obj.copula
          /\ jc_err' = r.err
    /\ UNCHANGED <<ordered_parameters, methods, jc_pc>>
    /\ UNCHANGED <<lhs_vars, mle_vars>>

\* Keys that no JointCopula of the model recognises.
UnknownKeys == { NameA, <<"z", "_", "0">> }

\* Keyword arguments: one key with a value, or a recognised and an
\* unrecognised key in either order.
KwArgs ==
    LET known == DOMAIN GetParameters(marginals, copula)
    IN { << <<k, v>> >> : k \in known \cup UnknownKeys, v \in Values }
       \cup { << <<k, v>>, <<z, v>> >> : k \in known, z \in UnknownKeys, v \in Values }
       \cup { << <<z, v>>, <<k, v>> >> : k \in known, z \in UnknownKeys, v \in Values }

MarginalLists == UNION { [1..n -> MarginalObjects] : n \in 1..MaxMarg }

NextJC ==
    \/ \E margs \in MarginalLists, cop \in CopulaObjects, check_ok \in BOOLEAN :
         JCConstruct(margs, cop, check_ok)
    \/ \E kwargs \in KwArgs : UpdateParameters(kwargs)

(***************************************************************************)
(* Initial state and the specifications, one per class.                    *)
(***************************************************************************)
Init ==
    /\ dist_object = [kind |-> "none", dims |-> 0, icdf |-> {}]
    /\ criterion = "Random"
    /\ samples_number = 0
    /\ samples = None
    /\ samplesU01 = None
    /\ lhs_pc = "init"
    /\ lhs_err = "none"
    /\ run_calls = 0
    /\ inference_model = [fit |-> FALSE, n_parameters |-> 1]
    /\ n_optimizations = None
    /\ initial_parameters = None
    /\ data = None
    /\ mle = None
    /\ max_log_like = None
    /\ mle_pc = "init"
    /\ mle_err = "none"
    /\ mle_runs = 0
    /\ opt_results = <<>>
    /\ returned = {}
    /\ marginals = <<>>
    /\ copula = Object({}, <<>>)
    /\ ordered_parameters = <<>>
    /\ methods = {}
    /\ jc_pc = "init"
    /\ jc_err = "none"

SpecLHS == Init /\ [][NextLHS]_vars

SpecMLE == Init /\ [][NextMLE]_vars

SpecJC == Init /\ [][NextJC]_vars

(***************************************************************************)
(* Properties of the Latin hypercube engine.                               *)
(***************************************************************************)
Supported == dist_object.kind \in {"list", "single", "joint"}

\* The last call (the constructor's run or a later run) completed.
RunCompleted == lhs_pc = "live" /\ lhs_err = "none"

\* The rows of column j of mat whose value lies in stratum k of n, [k/n, (k+1)/n).
RowsInStratum(mat, j, k, n) ==
    { i \in 1..Rows(mat) : k * Den <= mat[i][j] * n /\ mat[i][j] * n < (k + 1) * Den }

\* mat has exactly one row per stratum of n on every one of its d axes.
Stratified(mat, n, d) ==
    /\ Cols(mat) = d
    /\ \A j \in 1..d : \A k \in 0..(n - 1) :
          Cardinality(RowsInStratum(mat, j, k, n)) = 1

\* C1: after every completed run, for every dimension j and every stratum k
\* of the CURRENT samples_number n, exactly one row of samplesU01[:, j] lies
\* in [k/n, (k+1)/n).
C1_Stratification ==
    (RunCompleted /\ Supported) =>
        Stratified(samplesU01, samples_number, dist_object.dims)

\* C2: after every completed run both matrices have the shape
\* (samples_number, dimensions).
C2_Shape ==
    (RunCompleted /\ Supported) =>
        /\ Rows(samples) = samples_number
        /\ Rows(samplesU01) = samples_number
        /\ Cols(samples) = dist_object.dims
        /\ Cols(samplesU01) = dist_object.dims

\* Column j of samples is the image of column j of samplesU01 under icdf_j.
ColumnTransformed(j) ==
    /\ Rows(samples) = Rows(samplesU01)
    /\ \A i \in 1..Rows(samplesU01) : samples[i][j] = Icdf(j, samplesU01[i][j])

\* C3 as stated: after a completed run, every dimension whose marginal has
\* icdf is transformed, whichever form `distributions` has and whatever the
\* other marginals expose.
C3_TransformEveryForm ==
    (RunCompleted /\ Supported) =>
        \A j \in 1..dist_object.dims : HasIcdf(dist_object, j) => ColumnTransformed(j)

\* C3 amended: after a completed run, for a list or a single 1-D distribution
\* every dimension whose marginal has icdf is transformed from its own column
\* of samplesU01; for an independent-joint aggregate this holds when all the
\* marginals have icdf.
C3_Transform ==
    (RunCompleted /\ Supported) =>
        \A j \in 1..dist_object.dims :
            ( /\ HasIcdf(dist_object, j)
              /\ \/ dist_object.kind # "joint"
                 \/ dist_object.icdf = 1..dist_object.dims )
            => ColumnTransformed(j)

\* An aggregate of at least two marginals, all with icdf, has been run again
\* after construction, and its two unit-cube columns differ.
C3_Witness ==
    /\ RunCompleted
    /\ dist_object.kind = "joint"
    /\ dist_object.dims >= 2
    /\ dist_object.icdf = 1..dist_object.dims
    /\ run_calls >= 2
    /\ \E i \in 1..Rows(samplesU01) : samplesU01[i][1] # samplesU01[i][2]
    /\ ColumnTransformed(2)

\* C4: a marginal without icdf never makes construct / run raise, its column
\* of samples is all zeros after construction and after every later run, and
\* samplesU01 still holds the criterion's design after a completed run.
C4_ZeroFill ==
    (lhs_pc = "live" /\ Supported) =>
        /\ \A j \in 1..dist_object.dims :
              ~HasIcdf(dist_object, j) => \A i \in 1..Rows(samples) : samples[i][j] = 0
        /\ lhs_err \in {"none", "InvalidDesignError", "IcdfError"}
        /\ lhs_err = "none" =>
              Stratified(samplesU01, Rows(samplesU01), dist_object.dims)

\* A list whose second marginal lacks icdf was run again after construction:
\* its first column is transformed, its second column is zero.
C4_Witness ==
    /\ RunCompleted
    /\ dist_object.kind = "list"
    /\ dist_object.dims >= 2
    /\ dist_object.icdf = {1}
    /\ run_calls >= 2
    /\ Rows(samples) >= 2
    /\ ColumnTransformed(1)
    /\ \A i \in 1..Rows(samples) : samples[i][2] = 0

\* C5: a Distribution that is no list, no continuous 1-D and no
\* JointIndependent is rejected with an input error by the constructor before
\* run is invoked.
C5_RejectsOtherKinds ==
    (lhs_pc # "init" /\ dist_object.kind = "other") =>
        /\ lhs_err = "InvalidInputError"
        /\ run_calls = 0

\* C6: a run call that raises leaves samples, samplesU01 and samples_number
\* as they were before the call.
C6_RunIsAtomic ==
    [][ (lhs_pc = "live" /\ run_calls' = run_calls + 1 /\ lhs_err' # "none")
          => /\ samples' = samples
             /\ samplesU01' = samplesU01
             /\ samples_number' = samples_number ]_vars

(***************************************************************************)
(* Properties of MLE.                                                      *)
(***************************************************************************)
\* C7: after a run that completed and made at least one optimizer / fit
\* call, mle is a vector some call returned, max_log_like is the
\* log-likelihood at mle for the data of this run, and no call of this run
\* returned a vector with a greater log-likelihood for that data.
C7_MaximumOfThisRun ==
    (mle_pc \in {"constructed", "ran"} /\ mle_err = "none" /\ opt_results # <<>>) =>
        /\ mle # None
        /\ mle \in returned
        /\ max_log_like = Some(LogLikelihood(mle, data))
        /\ \A k \in 1..Len(opt_results) :
              LogLikelihood(opt_results[k], data) <= max_log_like[1]

\* C10: when the constructor returns and initial_parameters or
\* n_optimizations was given, run has been called and mle and max_log_like
\* are populated.
C10_RunsAtConstruction ==
    (mle_pc = "constructed" /\ (initial_parameters # None \/ n_optimizations # None)) =>
        /\ mle_runs >= 1
        /\ mle # None
        /\ max_log_like # None

(***************************************************************************)
(* Properties of JointCopula.                                              *)
(***************************************************************************)
\* C8: a successfully constructed JointCopula has cdf iff its copula has
\* evaluate_cdf, pdf iff every marginal has pdf and the copula has
\* evaluate_pdf, log_pdf iff every marginal has log_pdf and the copula has
\* evaluate_pdf; construction raises ValueError when a marginal lacks cdf.
C8_Exposure ==
    /\ jc_pc = "live" =>
        /\ "cdf" \in methods <=> "evaluate_cdf" \in copula.caps
        /\ "pdf" \in methods <=>
              /\ \A i \in 1..Len(marginals) : "pdf" \in marginals[i].caps
              /\ "evaluate_pdf" \in copula.caps
        /\ "log_pdf" \in methods <=>
              /\ \A i \in 1..Len(marginals) : "log_pdf" \in marginals[i].caps
              /\ "evaluate_pdf" \in copula.caps
    /\ (jc_pc # "init" /\ \E i \in 1..Len(marginals) : "cdf" \notin marginals[i].caps) =>
        /\ jc_pc = "dead"
        /\ jc_err = "ValueError"

\* A joint of two marginals that all have pdf, one of them without log_pdf,
\* under a copula with evaluate_pdf: pdf is exposed and log_pdf is not.
C8_Witness ==
    /\ jc_pc = "live"
    /\ Len(marginals) >= 2
    /\ "evaluate_pdf" \in copula.caps
    /\ \E i \in 1..Len(marginals) : "log_pdf" \notin marginals[i].caps
    /\ "pdf" \in methods
    /\ "log_pdf" \notin methods

\* The effect of update_parameters(key = v) on a live joint is exactly:
\* no exception, the marginals and copula `expected`, and the dictionary of
\* get_parameters changed at `key` alone.
UpdatesOnly(key, v, expected) ==
    /\ UpdateResult(<< <<key, v>> >>).err = "none"
    /\ UpdateResult(<< <<key, v>> >>).obj = expected
    /\ GetParameters(UpdateResult(<< <<key, v>> >>).obj.marginals,
                     UpdateResult(<< <<key, v>> >>).obj.copula)
          = [GetParameters(marginals, copula) EXCEPT ![key] = v]

\* C9: in every state of a constructed joint, update_parameters(k = v) with a
\* key k of get_parameters sets get_parameters()[k] to v and changes no other
\* key; a key name_i changes parameter `name` of marginal i only, a key name_c
\* changes parameter `name` of the copula only, also when `name` contains
\* underscores; and the keys of get_parameters are the entries of
\* ordered_parameters.
C9_RoundTrip ==
    jc_pc = "live" =>
        /\ Range(ordered_parameters) = DOMAIN GetParameters(marginals, copula)
        /\ \A v \in Values :
            /\ \A i \in 1..Len(marginals) : \A name \in DOMAIN marginals[i].parameters :
                  UpdatesOnly(MarginalKey(name, i - 1), v,
                              [marginals |-> [marginals EXCEPT ![i].parameters[name] = v],
                               copula |-> copula])
            /\ \A name \in DOMAIN copula.parameters :
                  UpdatesOnly(CopulaKey(name), v,
                              [marginals |-> marginals,
                               copula |-> [copula EXCEPT !.parameters[name] = v]])

\* The parameter a_1 of the second marginal (key a_1_1) was updated to 1 and
\* nothing else was: its parameter a (key a_1), the first marginal and the
\* copula's a_1 (key a_1_c) still hold 0.
C9_Witness ==
    /\ jc_pc = "live"
    /\ jc_err = "none"
    /\ Len(marginals) >= 2
    /\ DOMAIN marginals[2].parameters = {NameA, NameA1}
    /\ marginals[2].parameters[NameA1] = 1
    /\ marginals[2].parameters[NameA] = 0
    /\ \A name \in DOMAIN marginals[1].parameters : marginals[1].parameters[name] = 0
    /\ copula.parameters[NameA1] = 0
    /\ GetParameters(marginals, copula)[<<"a", "_", "1", "_", "1">>] = 1
    /\ GetParameters(marginals, copula)[<<"a", "_", "1">>] = 0

\* kwargs holds at least one key that get_parameters does not return.
HasUnrecognisedKey(kwargs) ==
    \E n \in 1..Len(kwargs) : kwargs[n][1] \notin DOMAIN GetParameters(marginals, copula)

\* C11: update_parameters called with at least one unrecognised key raises
\* ValueError and leaves every marginal and copula parameter unchanged,
\* whatever the order of the recognised and unrecognised keys.
C11_RejectedUpdateChangesNothing ==
    [][ \A kwargs \in KwArgs :
           (HasUnrecognisedKey(kwargs) /\ UpdateParameters(kwargs)) =>
              /\ jc_err' = "ValueError"
              /\ marginals' = marginals
              /\ copula' = copula ]_vars

====
